---- MODULE Spec2Model ----
(***************************************************************************)
(* Model of the Data Quality Dashboard check pipeline of run_checks.py:    *)
(* DQD.execute (catalog filters, the run loop), DQD.run_check,             *)
(* DQD.process_check, DQD.record_result, DQD.get_check_id and the result   *)
(* classifier DQD._evaluate_thresholds.                                    *)
(*                                                                         *)
(* Text is a sequence of one-character strings, so that upper(), lower(),  *)
(* replace(' ', '') and '_'.join() are computed and not assumed.  A value  *)
(* of a pandas cell is a record [t, s, n]: t = "none" (None / NaN),        *)
(* t = "str" (text s) or t = "int" (the integer n).                        *)
(***************************************************************************)
EXTENDS Integers, Sequences, FiniteSets, TLC

VARIABLES
    tables_to_include,  \* self.tables_to_include
    tables_to_exclude,  \* self.tables_to_exclude
    check_names,        \* self.check_names
    sql_only,           \* execute(sql_only=...)
    check_descriptions, \* the loaded, then filtered, check descriptions
    table_checks,       \* the loaded, then filtered, table-level rule definitions
    field_checks,       \* the loaded, then filtered, field-level rule definitions
    concept_checks,     \* the loaded, then filtered, concept-level rule definitions
    pc,                 \* position of execute()
    ci,                 \* index of the check description the run loop is at
    ri,                 \* index of the row run_check's loop is at
    checks,             \* run_check: rows matched by the evaluation filter
    dfs,                \* run_check: the per-row result frames so far
    results_list,       \* execute: one frame per check description run so far
    check_results,      \* the frame the classifier works on
    exc,                \* the exception that ended the run, "" when none
    errors,             \* number of queries that have failed in this run
    step3_failed,       \* history: checkIds with FAILED = 1 when the threshold loop ended
    id_args,            \* argument tuples handed to get_check_id
    id_out,             \* the ids get_check_id returned for id_args
    engine,             \* whether self.engine has been created
    files,              \* the <checkName>.sql files of the output folder
    executed,           \* history: the queries handed to pd.read_sql, in order
    evaluations,        \* history: number of calls of evaluate_thresholds
    conditions,         \* history: the six cascade columns of every row at line 679
    overview,           \* what summarize_results returned
    report,             \* what write_results_to_json wrote
    orderings,          \* two orderings of one set of raw results
    outcomes            \* what the classifier made of each ordering

vars == <<tables_to_include, tables_to_exclude, check_names, sql_only,
          check_descriptions, table_checks, field_checks, concept_checks,
          pc, ci, ri, checks, dfs, results_list, check_results, exc,
          errors, step3_failed, id_args, id_out,
          engine, files, executed, evaluations, conditions, overview, report,
          orderings, outcomes>>

runVars == <<tables_to_include, tables_to_exclude, check_names, sql_only,
             check_descriptions, table_checks, field_checks, concept_checks,
             pc, ci, ri, checks, dfs, results_list, check_results, exc,
             errors, step3_failed>>

idVars == <<id_args, id_out>>

ioVars == <<engine, files, executed, evaluations, conditions, overview, report>>

orderVars == <<orderings, outcomes>>

----------------------------------------------------------------------------
(* Text and cell values                                                    *)

UpperChars == <<"A","B","C","D","E","F","G","H","I","J","K","L","M",
                "N","O","P","Q","R","S","T","U","V","W","X","Y","Z">>

LowerChars == <<"a","b","c","d","e","f","g","h","i","j","k","l","m",
                "n","o","p","q","r","s","t","u","v","w","x","y","z">>

DigitChars == <<"0","1","2","3","4","5","6","7","8","9">>

\* str.upper() and str.lower() on one character
UpperChar(c) ==
    IF \E i \in 1..26 : LowerChars[i] = c
    THEN UpperChars[CHOOSE i \in 1..26 : LowerChars[i] = c]
    ELSE c

LowerChar(c) ==
    IF \E i \in 1..26 : UpperChars[i] = c
    THEN LowerChars[CHOOSE i \in 1..26 : UpperChars[i] = c]
    ELSE c

Upper(s) == [i \in 1..Len(s) |-> UpperChar(s[i])]

Lower(s) == [i \in 1..Len(s) |-> LowerChar(s[i])]

IsSpace(c) == c = " "

NotSpace(c) == ~IsSpace(c)

\* str.replace(' ', '')
StripSpaces(s) == SelectSeq(s, NotSpace)

RECURSIVE IntToStr(_)
\* str(n) of a non-negative integer
IntToStr(n) ==
    IF n < 10 THEN <<DigitChars[n + 1]>>
    ELSE IntToStr(n \div 10) \o <<DigitChars[(n % 10) + 1]>>

None == [t |-> "none", s |-> <<>>, n |-> 0]

StrV(s) == [t |-> "str", s |-> s, n |-> 0]

IntV(n) == [t |-> "int", s |-> <<>>, n |-> n]

\* str(item) of a cell that is not None
ToStr(v) == IF v.t = "int" THEN IntToStr(v.n) ELSE v.s

\* pd.isna(v), once line 482 has turned blank text into NaN
IsNa(v) == v.t = "none"

\* check_results.replace(r'^\s*$', np.nan, regex=True) on one cell
BlankToNaN(v) ==
    IF v.t = "str" /\ StripSpaces(v.s) = <<>> THEN None ELSE v

----------------------------------------------------------------------------
(* DQD.get_check_id                                                        *)

NotNone(v) == v.t # "none"

NonEmpty(s) == s # <<>>

RECURSIVE JoinUnderscore(_)
\* '_'.join(items)
JoinUnderscore(items) ==
    IF items = <<>> THEN <<>>
    ELSE IF Len(items) = 1 THEN items[1]
    ELSE items[1] \o <<"_">> \o JoinUnderscore(Tail(items))

\* faulty variant of DropEmptyItems: the empty components are kept
KeepEmptyItems(items) == items

\* items = [item for item in items if item]
DropEmptyItems(items) == SelectSeq(items, NonEmpty)

get_check_id(check_level, check_name, cdm_table_name, cdm_field_name, concept_id, unit_concept_id) ==
    LET items0 == <<check_level, check_name, cdm_table_name, cdm_field_name,
                    concept_id, unit_concept_id>>
        items1 == SelectSeq(items0, NotNone)
        items2 == [i \in 1..Len(items1) |-> StripSpaces(ToStr(items1[i]))]
        items3 == DropEmptyItems(items2)
    IN  Lower(JoinUnderscore(items3))

----------------------------------------------------------------------------
(* The rule catalog: the four csv files execute() loads (lines 88-103).    *)
(* The files are input data; the model draws them from CatalogVariants.    *)

cdmTable == <<"c","d","m","T","a","b","l","e">>

cdmField == <<"c","d","m","F","i","e","l","d">>

measureValueCompleteness == <<"m","e","a","s","u","r","e","V","a","l","u","e","C","o","m","p","l","e","t","e","n","e","s","s">>

isRequired == <<"i","s","R","e","q","u","i","r","e","d">>

plausibleValueLow == <<"p","l","a","u","s","i","b","l","e","V","a","l","u","e","L","o","w">>

plausibleGender == <<"p","l","a","u","s","i","b","l","e","G","e","n","d","e","r">>

TABLE == <<"T","A","B","L","E">>

FIELD == <<"F","I","E","L","D">>

CONCEPT == <<"C","O","N","C","E","P","T">>

PERSON == <<"P","E","R","S","O","N">>

VISIT == <<"V","I","S","I","T">>

BIRTH_DATETIME == <<"B","I","R","T","H","_","D","A","T","E","T","I","M","E">>

VISIT_CONCEPT_ID == <<"V","I","S","I","T","_","C","O","N","C","E","P","T","_","I","D">>

offset == <<"o","f","f","s","e","t">>

\* one row of Check_Descriptions.csv; evaluationFilter is the text handed to
\* DataFrame.eval, category is kahnCategory
Description(name, level, filter, category) ==
    [checkName |-> name, checkLevel |-> level, evaluationFilter |-> filter,
     kahnCategory |-> category]

\* one row of a rule-definition file.  A column the file lacks reads as None
\* (lines 251-256); passes is the set of evaluation filters that hold of the
\* row; thresholds maps each <checkName>Threshold column of the file to the
\* row's cell.
Rule(table, field, concept, unit, passes, thresholds) ==
    [cdmTableName |-> table, cdmFieldName |-> field, conceptId |-> concept,
     unitConceptId |-> unit, passes |-> passes, thresholds |-> thresholds]

NoThresholds == [c \in {} |-> None]

CheckDescriptionsCsv ==
    << Description(cdmTable, TABLE, "cdmTableName != ''", "Conformance"),
       Description(cdmField, FIELD, "cdmFieldName != ''", "Conformance"),
       Description(measureValueCompleteness, FIELD,
                   "measureValueCompleteness == 'Yes'", "Completeness"),
       Description(isRequired, FIELD, "isRequired == 'Yes'", "Conformance"),
       Description(plausibleGender, CONCEPT, "plausibleGender != ''",
                   "Plausibility") >>

TableLevelCsv ==
    << Rule(PERSON, None, None, None, {"cdmTableName != ''"}, NoThresholds),
       Rule(VISIT, None, None, None, {"cdmTableName != ''"}, NoThresholds) >>

\* Field_Level.csv has the columns cdmFieldThreshold and
\* measureValueCompletenessThreshold and no isRequiredThreshold.  visitCell is
\* the measureValueCompletenessThreshold cell of VISIT.VISIT_CONCEPT_ID.
FieldLevelCsv(personCell, visitCell, zeroCell) ==
    << Rule(PERSON, StrV(BIRTH_DATETIME), None, None,
            {"cdmFieldName != ''", "measureValueCompleteness == 'Yes'",
             "isRequired == 'Yes'"},
            (cdmField :> zeroCell) @@ (measureValueCompleteness :> personCell)),
       Rule(VISIT, StrV(VISIT_CONCEPT_ID), None, None,
            {"measureValueCompleteness == 'Yes'"},
            (cdmField :> zeroCell) @@ (measureValueCompleteness :> visitCell)),
       Rule(VISIT, StrV(offset), None, None,
            {"cdmFieldName != ''"},
            (cdmField :> zeroCell) @@ (measureValueCompleteness :> visitCell)) >>

\* Concept_Level.csv: conceptId is a numeric column, unitConceptId has a
\* blank cell and is therefore read as text (keep_default_na=False).
ConceptLevelCsv ==
    << Rule(VISIT, StrV(VISIT_CONCEPT_ID), IntV(9201), StrV(<<>>),
            {"plausibleGender != ''"}, NoThresholds),
       Rule(VISIT, StrV(VISIT_CONCEPT_ID), IntV(9202), StrV(<<"8">>),
            {"plausibleGender != ''"}, NoThresholds) >>

\* a Field_Level.csv with two defects: the row of VISIT.VISIT_CONCEPT_ID is
\* there twice (the second time with measureValueCompleteness = 'No'), and a
\* row of PERSON has a blank cdmFieldName
FieldLevelCsvDefective ==
    << Rule(VISIT, StrV(VISIT_CONCEPT_ID), None, None,
            {"measureValueCompleteness == 'Yes'"},
            (cdmField :> IntV(0)) @@ (measureValueCompleteness :> IntV(4))),
       Rule(VISIT, StrV(VISIT_CONCEPT_ID), None, None, {},
            (cdmField :> IntV(0)) @@ (measureValueCompleteness :> IntV(4))),
       Rule(PERSON, StrV(<<>>), None, None,
            {"measureValueCompleteness == 'Yes'"},
            (cdmField :> IntV(0)) @@ (measureValueCompleteness :> IntV(5))) >>

\* read_csv types a threshold column as numbers when every cell is a number
\* and as text as soon as one cell is blank.
CatalogVariants ==
    { FieldLevelCsv(IntV(5), IntV(4), IntV(0)),
      FieldLevelCsv(StrV(<<"5">>), StrV(<<>>), StrV(<<"0">>)),
      FieldLevelCsvDefective }

\* `threshold_field in table_checks`: the columns of a rule-definition file
ThresholdColumns(rules) ==
    UNION { DOMAIN rules[i].thresholds : i \in 1..Len(rules) }

----------------------------------------------------------------------------
(* Rendering: template.render, sqlglot.transpile and the terminator        *)
(* (lines 246-299).  SQL text is a sequence of items: a fixed piece of the *)
(* template (lit) or the text of an interpolated value (val).              *)

Lit(text) == [kind |-> "lit", lit |-> text, val |-> <<>>]

Val(chars) == [kind |-> "val", lit |-> "", val |-> chars]

\* {{ name }} in a template
Param(name) == [kind |-> "param", lit |-> name, val |-> <<>>]

\* the templates of ./sql, by check name.  The isRequired template refers to
\* cohortDefinitionId, which no rule-definition file has as a column.
TemplateOf(check_name) ==
    IF check_name = cdmTable
      THEN << Lit("SELECT"), Lit("COUNT_BIG"), Lit("(*) FROM"),
              Param("cdmDatabaseSchema"), Lit("."), Param("cdmTableName") >>
    ELSE IF check_name = isRequired
      THEN << Lit("SELECT"), Lit("COUNT_BIG"), Lit("(*) FROM"),
              Param("cdmDatabaseSchema"), Lit("."), Param("cdmTableName"),
              Lit("WHERE"), Param("cdmFieldName"), Lit("IS NULL AND '"),
              Param("cohortDefinitionId"), Lit("' = ''") >>
    ELSE IF check_name = plausibleGender
      THEN << Lit("SELECT"), Lit("COUNT_BIG"), Lit("(*) FROM"),
              Param("cdmDatabaseSchema"), Lit("."), Param("cdmTableName"),
              Lit("WHERE"), Param("cdmFieldName"), Lit("="), Param("conceptId"),
              Lit("AND unit ="), Param("unitConceptId") >>
    ELSE << Lit("SELECT"), Lit("COUNT_BIG"), Lit("(*) FROM"),
            Param("cdmDatabaseSchema"), Lit("."), Param("cdmTableName"),
            Lit("WHERE"), Param("cdmFieldName"), Lit("IS NULL") >>

\* self.cdm_schema and self.vocab_schema (lines 57-65)
cdm_schema == <<"C","d","m">>

\* self.dbms (line 70); the queries are translated for bigquery
dbms == "bigquery"

\* str(value) as jinja2 writes a value: None is written "None"
Written(v) ==
    IF v.t = "none" THEN <<"N","o","n","e">> ELSE ToStr(v)

\* lines 267-277: the value of a name column is lower-cased when it is text
Lowered(v) == IF v.t = "str" THEN StrV(Lower(v.s)) ELSE v

\* the keyword arguments of template.render (lines 251-256, 273-290): the
\* row's identifying columns, a missing one being None, and the two schemas,
\* lower-cased and quoted
Variables(check) ==
    [cdmDatabaseSchema |-> StrV(<<"\"">> \o Lower(cdm_schema) \o <<"\"">>),
     vocabDatabaseSchema |-> StrV(<<"\"">> \o Lower(cdm_schema) \o <<"\"">>),
     cdmTableName |-> Lowered(StrV(check.cdmTableName)),
     cdmFieldName |-> Lowered(check.cdmFieldName),
     conceptId |-> check.conceptId,
     unitConceptId |-> check.unitConceptId]

\* faulty variant of RenderParam: a name the variables lack is left in place
RenderParamKeepsName(variables, name) ==
    IF name \in DOMAIN variables THEN Val(Written(variables[name]))
    ELSE Param(name)

\* one {{ name }}: TEMPLATE_ENV (line 22) has the default `undefined`, so a name
\* the variables lack is written as the empty text
RenderParam(variables, name) ==
    IF name \in DOMAIN variables THEN Val(Written(variables[name]))
    ELSE Val(<<>>)

\* template.render(**variables) (lines 287-290)
Render(template, variables) ==
    [i \in 1..Len(template) |->
        IF template[i].kind = "param"
        THEN RenderParam(variables, template[i].lit)
        ELSE template[i]]

\* the names a template refers to
Referenced(template) ==
    { template[i].lit : i \in { j \in 1..Len(template) : template[j].kind = "param" } }

\* sqlglot.transpile(sql, 'tsql_extension', self.dbms)[0] (lines 293-296):
\* COUNT_BIG is read as the count operation (db.py) and written COUNT
Transpile(sql) ==
    [i \in 1..Len(sql) |->
        IF sql[i] = Lit("COUNT_BIG") /\ dbms = "bigquery" THEN Lit("COUNT")
        ELSE sql[i]]

\* f"{sql}\n;\n" (line 299)
Terminated(sql) == sql \o << Lit("\n;\n") >>

\* the query text of one row (lines 287-299)
QueryText(check_description, check) ==
    Terminated(Transpile(Render(TemplateOf(check_description.checkName),
                                Variables(check))))

----------------------------------------------------------------------------
(* The <checkName>.sql files of the output folder                          *)

NoFile == [exists |-> FALSE, content |-> <<>>]

\* what an earlier run left in a file
Stale == [exists |-> TRUE, content |-> << << Lit("left over\n;\n") >> >>]

\* the output folder before the run: files of an earlier run for some names
StaleFiles ==
    [n \in {cdmTable, cdmField, measureValueCompleteness, isRequired, plausibleGender}
        |-> IF n \in {cdmField, isRequired, plausibleGender} THEN Stale ELSE NoFile]

\* summarize_results has not returned
NoOverview == [none |-> 0]

\* nothing has been written to the output file
NoReport == [written |-> FALSE, CheckResults |-> <<>>, Overview |-> NoOverview]

\* faulty variant of Unlink: the file is left as it is
UnlinkKeeps(fs, name) == fs

\* Path(...).unlink(missing_ok=True) (lines 240-242)
Unlink(fs, name) == [fs EXCEPT ![name] = NoFile]

\* open(..., 'a') and f.write(sql) (lines 303-306)
AppendSql(fs, name, sql) ==
    [fs EXCEPT ![name] = [exists |-> TRUE, content |-> Append(fs[name].content, sql)]]

----------------------------------------------------------------------------
(* Queries: what pd.read_sql (line 341) can do on one rendered query.      *)

FloatV(k) == [t |-> "float", s |-> <<>>, n |-> k]

\* a one-row result (num_violated_rows, pct_violated_rows,
\* num_denominator_rows); pct is held in ten-thousandths, and for every pct
\* drawn below the double product pct * 100 is exact
QueryRow(n, pct, d) == [kind |-> "row", n |-> n, pct |-> pct, d |-> d]

\* read_sql raises
QueryRaises == [kind |-> "raises", n |-> 0, pct |-> 0, d |-> 0]

\* read_sql returns a frame without rows
QueryNoRow == [kind |-> "norow", n |-> 0, pct |-> 0, d |-> 0]

QueryFailedMsg == <<"q","u","e","r","y"," ","f","a","i","l","e","d">>

IndexErrorMsg == <<"o","u","t","-","o","f","-","b","o","u","n","d","s">>

\* at most MaxErrors queries of a run fail
MaxErrors == 1

\* the outcomes drawn for the queries of one check name
QueryOutcomes(check_name) ==
    IF check_name = cdmTable
      THEN {QueryRow(0, 0, 1), QueryRow(1, 10000, 1), QueryRaises}
    ELSE IF check_name = cdmField
      THEN {QueryRow(0, 0, 1), QueryRow(1, 10000, 1), QueryRaises}
    ELSE IF check_name = measureValueCompleteness
      THEN {QueryRow(0, 0, 1000), QueryRow(50, 500, 1000),
            QueryRow(1000, 10000, 1000), QueryRow(0, 0, 0), QueryRaises}
    ELSE IF check_name = isRequired
      THEN {QueryRow(0, 0, 1000), QueryRow(10, 100, 1000), QueryNoRow}
    ELSE {QueryRow(0, 0, 0), QueryRow(50, 500, 1000), QueryRaises}

----------------------------------------------------------------------------
(* DQD.record_result and DQD.process_check                                 *)

\* report_result of record_result; result is a QueryRow or None-like
\* QueryRaises, error a cell
record_result(check, check_description, result, error) ==
    [NUM_VIOLATED_ROWS |->
        IF result.kind = "row" THEN IntV(result.n) ELSE None,
     PCT_VIOLATED_ROWS |->
        IF result.kind = "row" THEN FloatV(result.pct) ELSE None,
     NUM_DENOMINATOR_ROWS |->
        IF result.kind = "row" THEN IntV(result.d) ELSE None,
     CHECK_NAME |-> check_description.checkName,
     CHECK_LEVEL |-> check_description.checkLevel,
     CDM_TABLE_NAME |-> StrV(check.cdmTableName),
     CDM_FIELD_NAME |-> check.cdmFieldName,
     CONCEPT_ID |-> check.conceptId,
     UNIT_CONCEPT_ID |-> check.unitConceptId,
     CATEGORY |-> check_description.kahnCategory,
     ERROR |-> error,
     checkId |-> get_check_id(StrV(check_description.checkLevel),
                              StrV(check_description.checkName),
                              StrV(check.cdmTableName), check.cdmFieldName,
                              check.conceptId, check.unitConceptId)]

\* faulty variant of process_check: a failed query leaves no result
process_check_skips_failed(check, check_description, outcome) ==
    IF outcome.kind = "row"
    THEN << record_result(check, check_description, outcome, None) >>
    ELSE <<>>

\* process_check: the frame (a sequence of rows) for one query.  A query that
\* raises, and a result frame without a row (.iloc[0] raises IndexError inside
\* the try), both end in the except branch.
process_check(check, check_description, outcome) ==
    IF outcome.kind = "row"
    THEN << record_result(check, check_description, outcome, None) >>
    ELSE IF outcome.kind = "norow"
    THEN << record_result(check, check_description, QueryRaises,
                          StrV(IndexErrorMsg)) >>
    ELSE << record_result(check, check_description, QueryRaises,
                          StrV(QueryFailedMsg)) >>

RECURSIVE Concat(_)
\* pd.concat(frames)
Concat(frames) ==
    IF frames = <<>> THEN <<>> ELSE Head(frames) \o Concat(Tail(frames))

----------------------------------------------------------------------------
(* The configuration drawn for a run                                       *)

person == <<"p","e","r","s","o","n">>

Visit == <<"V","i","s","i","t">>

notACheck == <<"n","o","C","h","e","c","k">>

IncludeLists == { <<>>, <<person>> }

ExcludeLists == { <<>>, <<Visit>>, <<person>> }

CheckNameLists == { <<>>, <<cdmField, measureValueCompleteness>>, <<notACheck>> }

\* the members of a list
Elems(list) == { list[i] : i \in 1..Len(list) }

Init ==
    /\ tables_to_include \in IncludeLists
    /\ tables_to_exclude \in ExcludeLists
    /\ check_names \in CheckNameLists
    /\ sql_only \in BOOLEAN
    /\ check_descriptions = CheckDescriptionsCsv
    /\ table_checks = TableLevelCsv
    /\ field_checks \in CatalogVariants
    /\ concept_checks = ConceptLevelCsv
    /\ pc = "execute"
    /\ ci = 0
    /\ ri = 0
    /\ checks = <<>>
    /\ dfs = <<>>
    /\ results_list = <<>>
    /\ check_results = <<>>
    /\ exc = ""
    /\ errors = 0
    /\ step3_failed = {}
    /\ id_args = <<>>
    /\ id_out = <<>>
    /\ engine = FALSE
    /\ files = StaleFiles
    /\ executed = <<>>
    /\ evaluations = 0
    /\ conditions = <<>>
    /\ overview = NoOverview
    /\ report = NoReport
    /\ orderings = <<>>
    /\ outcomes = <<>>

----------------------------------------------------------------------------
(* DQD.execute: the catalog filters                                        *)

\* rules[rules['cdmTableName'].isin([s.upper() for s in tables])]
KeepTables(rules, tables) ==
    SelectSeq(rules, LAMBDA r : r.cdmTableName \in { Upper(t) : t \in Elems(tables) })

\* faulty variant of DropTables: the names of the list are compared as given
DropTablesAsGiven(rules, tables) ==
    SelectSeq(rules, LAMBDA r : r.cdmTableName \notin Elems(tables))

\* rules[~rules['cdmTableName'].isin([s.upper() for s in tables])]
DropTables(rules, tables) ==
    SelectSeq(rules, LAMBDA r : r.cdmTableName \notin { Upper(t) : t \in Elems(tables) })

\* lines 109-127: the include list, then the exclude list, each a no-op when empty
FilterTables(rules, include, exclude) ==
    LET kept == IF Len(include) > 0 THEN KeepTables(rules, include) ELSE rules
    IN  IF Len(exclude) > 0 THEN DropTables(kept, exclude) ELSE kept

\* field_checks[field_checks['cdmFieldName'] != 'offset']
DropOffset(rules) ==
    SelectSeq(rules, LAMBDA r : r.cdmFieldName # StrV(offset))

\* check_descriptions[check_descriptions['checkName'].isin(self.check_names)]
FilterCheckNames(descriptions, names) ==
    IF Len(names) > 0
    THEN SelectSeq(descriptions, LAMBDA d : d.checkName \in Elems(names))
    ELSE descriptions

\* faulty variant of EngineFor: the engine is created in either mode
EngineAlways(mode) == TRUE

\* `if not sql_only` (line 82): whether execute creates the engine
EngineFor(mode) == ~mode

\* faulty variant of NoChecks: the run goes on without a check
NoChecksIgnored(descriptions) == FALSE

\* len(check_descriptions) == 0 (line 136)
NoChecks(descriptions) == Len(descriptions) = 0

\* execute, lines 81-143: filter the catalog; exit(1) when no check is left
Execute ==
    /\ pc = "execute"
    /\ engine' = EngineFor(sql_only)
    /\ UNCHANGED <<files, executed, evaluations, conditions, overview, report>>
    /\ table_checks' = FilterTables(table_checks, tables_to_include, tables_to_exclude)
    /\ field_checks' = DropOffset(FilterTables(field_checks, tables_to_include, tables_to_exclude))
    /\ concept_checks' = FilterTables(concept_checks, tables_to_include, tables_to_exclude)
    /\ check_descriptions' = FilterCheckNames(check_descriptions, check_names)
    /\ IF NoChecks(check_descriptions')
       THEN /\ pc' = "exited"
            /\ UNCHANGED <<ci, results_list>>
       ELSE /\ pc' = "run_check"
            /\ ci' = 1
            /\ results_list' = <<>>
    /\ UNCHANGED <<tables_to_include, tables_to_exclude, check_names, sql_only,
                   ri, checks, dfs, check_results, exc, errors, step3_failed>>
    /\ UNCHANGED <<idVars, orderVars>>

----------------------------------------------------------------------------
(* DQD.run_check                                                           *)

\* the rule-definition table of a check level (lines 230-238)
LevelRules(level) ==
    IF level = TABLE THEN table_checks
    ELSE IF level = FIELD THEN field_checks
    ELSE concept_checks

\* rules[rules.eval(evaluation_filter)]
EvalFilter(rules, evaluation_filter) ==
    SelectSeq(rules, LAMBDA r : evaluation_filter \in r.passes)

\* the run loop's next position once run_check has returned `frame`
Returned(frame) ==
    /\ results_list' = Append(results_list, frame)
    /\ ci' = ci + 1
    /\ pc' = "run_check"

\* run_check up to its row loop (lines 225-248); without a matching row it
\* returns an empty frame (lines 316-319)
RunCheck ==
    /\ pc = "run_check"
    /\ ci <= Len(check_descriptions)
    /\ files' = IF sql_only THEN Unlink(files, check_descriptions[ci].checkName)
                 ELSE files
    /\ UNCHANGED <<engine, executed, evaluations, conditions, overview, report>>
    /\ LET cd == check_descriptions[ci]
           matched == EvalFilter(LevelRules(cd.checkLevel), cd.evaluationFilter)
       IN  IF Len(matched) > 0
           THEN /\ checks' = matched
                /\ dfs' = <<>>
                /\ ri' = 1
                /\ pc' = "row"
                /\ UNCHANGED <<ci, results_list>>
           ELSE /\ Returned(<<>>)
                /\ UNCHANGED <<checks, dfs, ri>>
    /\ UNCHANGED <<tables_to_include, tables_to_exclude, check_names, sql_only,
                   check_descriptions, table_checks, field_checks, concept_checks,
                   check_results, exc, errors, step3_failed>>
    /\ UNCHANGED <<idVars, orderVars>>

\* the row loop's next position once the row at ri has produced `frame`;
\* after the last row run_check returns pd.concat(dfs) (line 315)
RowDone(frame) ==
    /\ dfs' = Append(dfs, frame)
    /\ IF ri < Len(checks)
       THEN /\ ri' = ri + 1
            /\ pc' = "row"
            /\ UNCHANGED <<ci, results_list>>
       ELSE /\ ri' = 0
            /\ Returned(Concat(dfs'))
    /\ UNCHANGED <<tables_to_include, tables_to_exclude, check_names, sql_only,
                   check_descriptions, table_checks, field_checks, concept_checks,
                   checks, check_results, exc, step3_failed>>
    /\ UNCHANGED <<engine, evaluations, conditions, overview, report>>
    /\ UNCHANGED <<idVars, orderVars>>

\* one row in SQL-only mode (lines 249-308): the query text is appended to
\* the file of the check name, an empty placeholder frame is the result
SqlOnlyRow ==
    /\ pc = "row"
    /\ sql_only
    /\ files' = AppendSql(files, check_descriptions[ci].checkName,
                          QueryText(check_descriptions[ci], checks[ri]))
    /\ RowDone(<<>>)
    /\ UNCHANGED <<errors, executed>>

\* one row in execute mode (lines 249-299, 310-313): the query runs once
ExecuteRow ==
    /\ pc = "row"
    /\ ~sql_only
    /\ executed' = Append(executed, QueryText(check_descriptions[ci], checks[ri]))
    /\ UNCHANGED files
    /\ \E outcome \in QueryOutcomes(check_descriptions[ci].checkName) :
          /\ outcome.kind # "row" => errors < MaxErrors
          /\ errors' = IF outcome.kind # "row" THEN errors + 1 ELSE errors
          /\ RowDone(process_check(checks[ri], check_descriptions[ci], outcome))

----------------------------------------------------------------------------
(* DQD._evaluate_thresholds: threshold resolution and the fail test        *)

\* lines 481-490: blank text becomes NaN, the verdict columns are added
InitVerdict(r) ==
    [NUM_VIOLATED_ROWS |-> r.NUM_VIOLATED_ROWS,
     PCT_VIOLATED_ROWS |-> r.PCT_VIOLATED_ROWS,
     NUM_DENOMINATOR_ROWS |-> r.NUM_DENOMINATOR_ROWS,
     CHECK_NAME |-> r.CHECK_NAME,
     CHECK_LEVEL |-> r.CHECK_LEVEL,
     CDM_TABLE_NAME |-> BlankToNaN(r.CDM_TABLE_NAME),
     CDM_FIELD_NAME |-> BlankToNaN(r.CDM_FIELD_NAME),
     CONCEPT_ID |-> BlankToNaN(r.CONCEPT_ID),
     UNIT_CONCEPT_ID |-> BlankToNaN(r.UNIT_CONCEPT_ID),
     CATEGORY |-> r.CATEGORY,
     ERROR |-> BlankToNaN(r.ERROR),
     checkId |-> r.checkId,
     FAILED |-> 0, PASSED |-> 0, IS_ERROR |-> 0, NOT_APPLICABLE |-> 0,
     NOT_APPLICABLE_REASON |-> <<>>,
     THRESHOLD_VALUE |-> None]

\* the rows the threshold filter selects (lines 510-535): by table; by table
\* and field; by table, field and concept; and by the unit too when the
\* result has one
ThresholdMatches(rules, r) ==
    SelectSeq(rules, LAMBDA c :
        /\ StrV(c.cdmTableName) = r.CDM_TABLE_NAME
        /\ r.CHECK_LEVEL # TABLE => c.cdmFieldName = r.CDM_FIELD_NAME
        /\ r.CHECK_LEVEL = CONCEPT => c.conceptId = r.CONCEPT_ID
        /\ (r.CHECK_LEVEL = CONCEPT /\ ~IsNa(r.UNIT_CONCEPT_ID))
              => c.unitConceptId = r.UNIT_CONCEPT_ID)

\* bool(threshold_value) of line 553
Truthy(v) ==
    \/ v.t = "int" /\ v.n # 0
    \/ v.t = "str" /\ v.s # <<>>

RECURSIVE ParseDigits(_)
\* the number a text of decimal digits denotes
ParseDigits(s) ==
    IF s = <<>> THEN 0
    ELSE 10 * ParseDigits(SubSeq(s, 1, Len(s) - 1))
         + (CHOOSE d \in 0..9 : DigitChars[d + 1] = s[Len(s)])

\* float(threshold_value), a number of percent
ToFloat(v) == IF v.t = "str" THEN IntV(ParseDigits(v.s)) ELSE v

\* faulty variant of HasItem: the first of several rows is taken
HasItemFirst(matches) == Len(matches) >= 1

\* Series.item() (lines 538-551) returns for a Series of exactly one element
HasItem(matches) == Len(matches) = 1

\* lines 506-557 for one result: the exception raised, or "" and the
\* threshold value.  A unit read from a text column is a str and has no
\* .astype (lines 530, 535); .item() raises ValueError unless exactly one row
\* matches (lines 538-551).
ResolveThreshold(r) ==
    LET rules == LevelRules(r.CHECK_LEVEL) IN
    IF r.CHECK_NAME \notin ThresholdColumns(rules)
    THEN [exc |-> "", value |-> None]
    ELSE IF r.CHECK_LEVEL = CONCEPT /\ ~IsNa(r.UNIT_CONCEPT_ID)
            /\ r.UNIT_CONCEPT_ID.t = "str"
    THEN [exc |-> "AttributeError", value |-> None]
    ELSE IF ~HasItem(ThresholdMatches(rules, r))
    THEN [exc |-> "ValueError", value |-> None]
    ELSE LET cell == ThresholdMatches(rules, r)[1].thresholds[r.CHECK_NAME]
         IN  [exc |-> "",
              value |-> IF Truthy(cell) THEN ToFloat(cell) ELSE cell]

\* faulty variant of PctExceeds: >= for >
PctReaches(pct, threshold_value) == pct.n >= threshold_value.n * 100

\* PCT_VIOLATED_ROWS * 100 > threshold_value (line 567), both numbers
PctExceeds(pct, threshold_value) == pct.n > threshold_value.n * 100

\* lines 559-569 for one result with its threshold: the exception raised, or
\* "" and the row.  Comparing a number with the text of a blank cell raises
\* TypeError.
FailTest(r, threshold_value) ==
    IF ~IsNa(r.ERROR)
    THEN [exc |-> "", row |-> [r EXCEPT !.IS_ERROR = 1]]
    ELSE IF IsNa(threshold_value) \/ threshold_value = IntV(0)
    THEN [exc |-> "",
          row |-> IF ~IsNa(r.NUM_VIOLATED_ROWS) /\ r.NUM_VIOLATED_ROWS.n > 0
                  THEN [r EXCEPT !.FAILED = 1] ELSE r]
    ELSE IF threshold_value.t = "str"
    THEN [exc |-> "TypeError", row |-> r]
    ELSE [exc |-> "",
          row |-> IF PctExceeds(r.PCT_VIOLATED_ROWS, threshold_value)
                  THEN [r EXCEPT !.FAILED = 1] ELSE r]

\* one pass of the loop body (lines 493-569)
ThresholdStep(r) ==
    LET resolved == ResolveThreshold(r) IN
    IF resolved.exc # "" THEN [exc |-> resolved.exc, row |-> r]
    ELSE FailTest([r EXCEPT !.THRESHOLD_VALUE = resolved.value], resolved.value)

RECURSIVE ThresholdLoop(_, _)
\* the loop of lines 492-569 from row i on: it stops at the first exception
ThresholdLoop(rows, i) ==
    IF i > Len(rows) THEN [exc |-> "", rows |-> rows]
    ELSE LET step == ThresholdStep(rows[i]) IN
         IF step.exc # "" THEN [exc |-> step.exc, rows |-> [rows EXCEPT ![i] = step.row]]
         ELSE ThresholdLoop([rows EXCEPT ![i] = step.row], i + 1)

----------------------------------------------------------------------------
(* DQD._evaluate_thresholds: the cascade                                   *)

\* r with the column col set to v (added when r lacks it)
WithColumn(r, col, v) == (col :> v) @@ r

\* a column added to every row of a frame
AddColumn(rows, col, v) == [i \in 1..Len(rows) |-> WithColumn(rows[i], col, v)]

\* how many entries of keys equal key
RECURSIVE Count(_, _)
Count(keys, key) ==
    IF keys = <<>> THEN 0
    ELSE (IF Head(keys) = key THEN 1 ELSE 0) + Count(Tail(keys), key)

\* m copies of r
RECURSIVE Copies(_, _)
Copies(r, m) == IF m = 0 THEN <<>> ELSE <<r>> \o Copies(r, m - 1)

TableKey(r) == <<r.CDM_TABLE_NAME>>

FieldKey(r) == <<r.CDM_TABLE_NAME, r.CDM_FIELD_NAME>>

\* the merge key of a row: on = "table" is on='CDM_TABLE_NAME', on = "field"
\* is on=['CDM_TABLE_NAME', 'CDM_FIELD_NAME']
MergeKey(r, on) == IF on = "table" THEN TableKey(r) ELSE FieldKey(r)

\* rows.merge(right, how='left', on=...) where right holds one row per entry
\* of keys and the extra column col = 1: a left row is repeated once per right
\* row with its key, and kept once with col = NaN without one
RECURSIVE LeftMerge(_, _, _, _)
LeftMerge(rows, keys, on, col) ==
    IF rows = <<>> THEN <<>>
    ELSE LET r == Head(rows)
             m == Count(keys, MergeKey(r, on))
         IN  (IF m = 0 THEN << WithColumn(r, col, None) >>
              ELSE Copies(WithColumn(r, col, IntV(1)), m))
             \o LeftMerge(Tail(rows), keys, on, col)

\* lines 571-573
IsMissingTable(r) == r.CHECK_NAME = cdmTable /\ r.FAILED = 1

\* lines 588-591
IsMissingField(r) ==
    /\ r.CHECK_NAME = cdmField
    /\ r.FAILED = 1
    /\ IsNa(r.TABLE_IS_MISSING)

\* faulty variant of FieldMissingMask: the clause IS_ERROR == 0 is left out
FieldMissingMaskWithErrors(r) == r.CHECK_NAME # cdmField

\* faulty variant of FieldMissingMask: the cdmField result is not left out
FieldMissingMaskWithTrigger(r) == r.IS_ERROR = 0

\* lines 601-602
FieldMissingMask(r) == r.CHECK_NAME # cdmField /\ r.IS_ERROR = 0

\* lines 608-613
IsEmptyTable(r) ==
    /\ r.CHECK_NAME = measureValueCompleteness
    /\ r.NUM_DENOMINATOR_ROWS = IntV(0)
    /\ r.IS_ERROR = 0
    /\ IsNa(r.TABLE_IS_MISSING)
    /\ IsNa(r.FIELD_IS_MISSING)

\* lines 630-636; a comparison with a null is False
IsEmptyField(r) ==
    /\ r.CHECK_NAME = measureValueCompleteness
    /\ ~IsNa(r.NUM_DENOMINATOR_ROWS)
    /\ r.NUM_DENOMINATOR_ROWS = r.NUM_VIOLATED_ROWS
    /\ IsNa(r.TABLE_IS_MISSING)
    /\ IsNa(r.FIELD_IS_MISSING)
    /\ IsNa(r.TABLE_IS_EMPTY)

\* faulty variant of FieldEmptyMask: the completeness results are not left out
FieldEmptyMaskWithCompleteness(r) ==
    /\ r.CHECK_NAME # cdmField
    /\ r.CHECK_NAME # isRequired
    /\ r.IS_ERROR = 0

\* lines 647-650
FieldEmptyMask(r) ==
    /\ r.CHECK_NAME # measureValueCompleteness
    /\ r.CHECK_NAME # cdmField
    /\ r.CHECK_NAME # isRequired
    /\ r.IS_ERROR = 0

\* faulty variant of ConceptMask: the earlier conditions are not looked at
ConceptMaskIgnoringEarlier(r) ==
    /\ r.IS_ERROR = 0
    /\ r.CHECK_LEVEL = CONCEPT
    /\ r.NUM_DENOMINATOR_ROWS = IntV(0)

\* lines 656-663 and 667-674 without the clause on the unit
ConceptMask(r) ==
    /\ r.IS_ERROR = 0
    /\ IsNa(r.TABLE_IS_MISSING)
    /\ IsNa(r.FIELD_IS_MISSING)
    /\ IsNa(r.TABLE_IS_EMPTY)
    /\ IsNa(r.FIELD_IS_EMPTY)
    /\ r.CHECK_LEVEL = CONCEPT
    /\ r.NUM_DENOMINATOR_ROWS = IntV(0)

\* lines 656-677
ConceptColumns(r) ==
    WithColumn(
        WithColumn(r, "CONCEPT_IS_MISSING",
            IF ConceptMask(r) /\ IsNa(r.UNIT_CONCEPT_ID) THEN IntV(1) ELSE None),
        "CONCEPT_AND_UNIT_ARE_MISSING",
        IF ConceptMask(r) /\ ~IsNa(r.UNIT_CONCEPT_ID) THEN IntV(1) ELSE None)

\* the six cascade columns in priority order (lines 679-685, 691-698)
CascadeColumns(r) ==
    << r.TABLE_IS_MISSING, r.FIELD_IS_MISSING, r.TABLE_IS_EMPTY,
       r.FIELD_IS_EMPTY, r.CONCEPT_IS_MISSING, r.CONCEPT_AND_UNIT_ARE_MISSING >>

\* reduce(combine_first).fillna(0) on one row (lines 686-689)
Coalesce(cols) ==
    IF \E i \in 1..Len(cols) : ~IsNa(cols[i])
    THEN cols[CHOOSE i \in 1..Len(cols) :
                 ~IsNa(cols[i]) /\ \A j \in 1..(i - 1) : IsNa(cols[j])].n
    ELSE 0

\* thens[i].format(row) (lines 707-714): the sentence with its interpolated
\* cells, as the list of its pieces
Then(i, r) ==
    CASE i = 1 -> <<"Table ", r.CDM_TABLE_NAME, " does not exist.">>
      [] i = 2 -> <<"Field ", r.CDM_TABLE_NAME, ".", r.CDM_FIELD_NAME,
                    " does not exist.">>
      [] i = 3 -> <<"Table ", r.CDM_TABLE_NAME, " is empty.">>
      [] i = 4 -> <<"Field ", r.CDM_TABLE_NAME, ".", r.CDM_FIELD_NAME,
                    " is not populated.">>
      [] i = 5 -> <<r.CDM_FIELD_NAME, "=", r.CONCEPT_ID, " is missing from the ",
                    r.CDM_TABLE_NAME, " table.">>
      [] i = 6 -> <<"Combination of ", r.CDM_FIELD_NAME, "=", r.CONCEPT_ID,
                    ", UNIT_CONCEPT_ID=", r.UNIT_CONCEPT_ID,
                    " and VALUE_AS_NUMBER IS NOT NULL is missing from the ",
                    r.CDM_TABLE_NAME, " table.">>

\* case_when (lines 700-704): the sentence of the first condition that holds,
\* None (here the empty list) without one
case_when(r) ==
    LET conds == CascadeColumns(r) IN
    IF \E i \in 1..6 : ~IsNa(conds[i])
    THEN Then(CHOOSE i \in 1..6 :
                 ~IsNa(conds[i]) /\ \A j \in 1..(i - 1) : IsNa(conds[j]), r)
    ELSE <<>>

\* lines 679-725 on one row: NOT_APPLICABLE, its reason, the helper columns dropped
ApplyCascade(r) ==
    [NUM_VIOLATED_ROWS |-> r.NUM_VIOLATED_ROWS,
     PCT_VIOLATED_ROWS |-> r.PCT_VIOLATED_ROWS,
     NUM_DENOMINATOR_ROWS |-> r.NUM_DENOMINATOR_ROWS,
     CHECK_NAME |-> r.CHECK_NAME,
     CHECK_LEVEL |-> r.CHECK_LEVEL,
     CDM_TABLE_NAME |-> r.CDM_TABLE_NAME,
     CDM_FIELD_NAME |-> r.CDM_FIELD_NAME,
     CONCEPT_ID |-> r.CONCEPT_ID,
     UNIT_CONCEPT_ID |-> r.UNIT_CONCEPT_ID,
     CATEGORY |-> r.CATEGORY,
     ERROR |-> r.ERROR,
     checkId |-> r.checkId,
     FAILED |-> r.FAILED, PASSED |-> r.PASSED, IS_ERROR |-> r.IS_ERROR,
     NOT_APPLICABLE |-> Coalesce(CascadeColumns(r)),
     NOT_APPLICABLE_REASON |-> case_when(r),
     THRESHOLD_VALUE |-> r.THRESHOLD_VALUE]

\* faulty variant of FinalVerdict: FAILED is not forced to 0
FinalVerdictKeepsFailed(r) ==
    [r EXCEPT !.PASSED = IF r.FAILED = 0 /\ r.IS_ERROR = 0 /\ r.NOT_APPLICABLE = 0
                         THEN 1 ELSE 0]

\* faulty variant of FinalVerdict: PASSED does not look at NOT_APPLICABLE
FinalVerdictPassesNotApplicable(r) ==
    LET failed == IF r.NOT_APPLICABLE = 1 THEN 0 ELSE r.FAILED
    IN  [r EXCEPT !.FAILED = failed,
                  !.PASSED = IF failed = 0 /\ r.IS_ERROR = 0 THEN 1 ELSE 0]

\* lines 727-733 on one row
FinalVerdict(r) ==
    LET failed == IF r.NOT_APPLICABLE = 1 THEN 0 ELSE r.FAILED
    IN  [r EXCEPT !.FAILED = failed,
                  !.PASSED = IF failed = 0 /\ r.IS_ERROR = 0 /\ r.NOT_APPLICABLE = 0
                             THEN 1 ELSE 0]

\* the keys of the rows of a frame that satisfy a predicate, in row order
MissingTableKeys(rows) ==
    LET sel == SelectSeq(rows, IsMissingTable)
    IN  [i \in 1..Len(sel) |-> TableKey(sel[i])]

\* faulty variant of MissingFieldKeys: only the first row of the frame is
\* looked at
MissingFieldKeysOfFirstRow(rows) ==
    LET sel == SelectSeq(SubSeq(rows, 1, 1), IsMissingField)
    IN  [i \in 1..Len(sel) |-> FieldKey(sel[i])]

MissingFieldKeys(rows) ==
    LET sel == SelectSeq(rows, IsMissingField)
    IN  [i \in 1..Len(sel) |-> FieldKey(sel[i])]

EmptyTableKeys(rows) ==
    LET sel == SelectSeq(rows, IsEmptyTable)
    IN  [i \in 1..Len(sel) |-> TableKey(sel[i])]

EmptyFieldKeys(rows) ==
    LET sel == SelectSeq(rows, IsEmptyField)
    IN  [i \in 1..Len(sel) |-> FieldKey(sel[i])]

\* lines 588-606 on the frame
MarkMissingFields(rows) ==
    IF Len(MissingFieldKeys(rows)) > 0
    THEN LET merged == LeftMerge(rows, MissingFieldKeys(rows), "field", "FIELD_IS_MISSING")
         IN  [i \in 1..Len(merged) |->
                IF FieldMissingMask(merged[i]) THEN merged[i]
                ELSE WithColumn(merged[i], "FIELD_IS_MISSING", None)]
    ELSE AddColumn(rows, "FIELD_IS_MISSING", None)

\* lines 630-654 on the frame
MarkEmptyFields(rows) ==
    IF Len(EmptyFieldKeys(rows)) > 0
    THEN LET merged == LeftMerge(rows, EmptyFieldKeys(rows), "field", "FIELD_IS_EMPTY")
         IN  [i \in 1..Len(merged) |->
                IF FieldEmptyMask(merged[i]) THEN merged[i]
                ELSE WithColumn(merged[i], "FIELD_IS_EMPTY", None)]
    ELSE AddColumn(rows, "FIELD_IS_EMPTY", None)

\* the ids of the rows with FAILED = 1
FailedIds(rows) == { rows[i].checkId : i \in { j \in 1..Len(rows) : rows[j].FAILED = 1 } }

----------------------------------------------------------------------------
(* DQD.execute after the run loop, and the phases of _evaluate_thresholds  *)

configVars == <<tables_to_include, tables_to_exclude, check_names, sql_only,
                check_descriptions, table_checks, field_checks, concept_checks>>

loopVars == <<ci, ri, checks, dfs, results_list, errors>>

\* faulty variant of RunLoopDone: the loop is left after its first pass
RunLoopDoneEarly(i, descriptions) == i > 1

\* the for loop of line 145 has gone through every check description
RunLoopDone(i, descriptions) == i > Len(descriptions)

\* lines 155-157: in SQL-only mode nothing follows the run loop
AfterLoop ==
    /\ pc = "run_check"
    /\ RunLoopDone(ci, check_descriptions)
    /\ UNCHANGED ioVars
    /\ IF sql_only
       THEN pc' = "done" /\ UNCHANGED check_results
       ELSE pc' = "evaluate" /\ check_results' = Concat(results_list)
    /\ UNCHANGED <<configVars, loopVars, exc, step3_failed>>
    /\ UNCHANGED <<idVars, orderVars>>

\* the classifier raises: execute() ends with the exception
Raise(e, rows) ==
    /\ pc' = "crashed"
    /\ exc' = e
    /\ check_results' = rows

\* lines 481-569
EvaluateThresholds ==
    /\ pc = "evaluate"
    /\ evaluations' = evaluations + 1
    /\ UNCHANGED <<engine, files, executed, conditions, overview, report>>
    /\ LET rows0 == [i \in 1..Len(check_results) |-> InitVerdict(check_results[i])]
           loop == ThresholdLoop(rows0, 1)
       IN  IF loop.exc # ""
           THEN Raise(loop.exc, loop.rows) /\ UNCHANGED step3_failed
           ELSE /\ pc' = "missing_tables"
                /\ check_results' = loop.rows
                /\ step3_failed' = FailedIds(loop.rows)
                /\ UNCHANGED exc
    /\ UNCHANGED <<configVars, loopVars>>
    /\ UNCHANGED <<idVars, orderVars>>

\* lines 571-586.  A frame without rows has no CHECK_NAME column (line 572).
\* With a failed cdmTable result, missing_tables is a Series: line 576 appends
\* the entry 1 to it, the merge of line 577 adds no column, and line 583
\* raises KeyError: 'TABLE_IS_MISSING'.
MissingTables ==
    /\ pc = "missing_tables"
    /\ UNCHANGED ioVars
    /\ IF Len(check_results) = 0
       THEN Raise("KeyError", check_results)
       ELSE IF Len(MissingTableKeys(check_results)) > 0
       THEN Raise("KeyError", check_results)
       ELSE /\ pc' = "missing_fields"
            /\ check_results' = AddColumn(check_results, "TABLE_IS_MISSING", None)
            /\ UNCHANGED exc
    /\ UNCHANGED <<configVars, loopVars, step3_failed>>
    /\ UNCHANGED <<idVars, orderVars>>

\* lines 588-606
MissingFields ==
    /\ pc = "missing_fields"
    /\ UNCHANGED ioVars
    /\ pc' = "empty_tables"
    /\ check_results' = MarkMissingFields(check_results)
    /\ UNCHANGED <<configVars, loopVars, exc, step3_failed>>
    /\ UNCHANGED <<idVars, orderVars>>

\* lines 608-628.  empty_tables is the ndarray .unique() returns: with an
\* entry in it, line 617 raises IndexError.
EmptyTables ==
    /\ pc = "empty_tables"
    /\ UNCHANGED ioVars
    /\ IF Len(EmptyTableKeys(check_results)) > 0
       THEN Raise("IndexError", check_results)
       ELSE /\ pc' = "empty_fields"
            /\ check_results' = AddColumn(check_results, "TABLE_IS_EMPTY", None)
            /\ UNCHANGED exc
    /\ UNCHANGED <<configVars, loopVars, step3_failed>>
    /\ UNCHANGED <<idVars, orderVars>>

\* lines 630-654
EmptyFields ==
    /\ pc = "empty_fields"
    /\ UNCHANGED ioVars
    /\ pc' = "cascade"
    /\ check_results' = MarkEmptyFields(check_results)
    /\ UNCHANGED <<configVars, loopVars, exc, step3_failed>>
    /\ UNCHANGED <<idVars, orderVars>>

\* lines 656-725
Cascade ==
    /\ pc = "cascade"
    /\ conditions' = [i \in 1..Len(check_results) |->
                         CascadeColumns(ConceptColumns(check_results[i]))]
    /\ UNCHANGED <<engine, files, executed, evaluations, overview, report>>
    /\ pc' = "verdict"
    /\ check_results' = [i \in 1..Len(check_results) |->
                            ApplyCascade(ConceptColumns(check_results[i]))]
    /\ UNCHANGED <<configVars, loopVars, exc, step3_failed>>
    /\ UNCHANGED <<idVars, orderVars>>

\* lines 727-735
Verdict ==
    /\ pc = "verdict"
    /\ UNCHANGED ioVars
    /\ pc' = "classified"
    /\ check_results' = [i \in 1..Len(check_results) |-> FinalVerdict(check_results[i])]
    /\ UNCHANGED <<configVars, loopVars, exc, step3_failed>>
    /\ UNCHANGED <<idVars, orderVars>>

----------------------------------------------------------------------------
(* DQD.summarize_results and DQD.write_results_to_json                     *)

\* len(check_results[(check_results['CATEGORY'] == category)])
CountCategory(rows, category) ==
    Len(SelectSeq(rows, LAMBDA r : r.CATEGORY = category))

\* len(check_results[(CATEGORY == category) & (FAILED == 1)])
CountFailed(rows, category) ==
    Len(SelectSeq(rows, LAMBDA r : r.CATEGORY = category /\ r.FAILED = 1))

\* len(check_results[(CATEGORY == category) & (PASSED == 1)])
CountPassed(rows, category) ==
    Len(SelectSeq(rows, LAMBDA r : r.CATEGORY = category /\ r.PASSED = 1))

\* lines 743-791
summarize_results(rows) ==
    LET countTotal == Len(rows)
        countOverallFailed == Len(SelectSeq(rows, LAMBDA r : r.FAILED = 1))
    IN  [countTotal |-> countTotal,
         countThresholdFailed |->
             Len(SelectSeq(rows, LAMBDA r : r.FAILED = 1 /\ IsNa(r.ERROR))),
         countErrorFailed |-> Len(SelectSeq(rows, LAMBDA r : ~IsNa(r.ERROR))),
         countOverallFailed |-> countOverallFailed,
         countPassed |-> countTotal - countOverallFailed,
         countTotalPlausibility |-> CountCategory(rows, "Plausibility"),
         countTotalConformance |-> CountCategory(rows, "Conformance"),
         countTotalCompleteness |-> CountCategory(rows, "Completeness"),
         countFailedPlausibility |-> CountFailed(rows, "Plausibility"),
         countFailedConformance |-> CountFailed(rows, "Conformance"),
         countFailedCompleteness |-> CountFailed(rows, "Completeness"),
         countPassedPlausibility |-> CountPassed(rows, "Plausibility"),
         countPassedConformance |-> CountPassed(rows, "Conformance"),
         countPassedCompleteness |-> CountPassed(rows, "Completeness")]

\* line 164
Summarize ==
    /\ pc = "classified"
    /\ pc' = "summarized"
    /\ overview' = summarize_results(check_results)
    /\ UNCHANGED <<configVars, loopVars, check_results, exc, step3_failed>>
    /\ UNCHANGED <<engine, files, executed, evaluations, conditions, report>>
    /\ UNCHANGED <<idVars, orderVars>>

\* lines 185-196: the classified results and the overview go to the output file
WriteResults ==
    /\ pc = "summarized"
    /\ pc' = "written"
    /\ report' = [written |-> TRUE, CheckResults |-> check_results,
                  Overview |-> overview]
    /\ UNCHANGED <<configVars, loopVars, check_results, exc, step3_failed>>
    /\ UNCHANGED <<engine, files, executed, evaluations, conditions, overview>>
    /\ UNCHANGED <<idVars, orderVars>>

Next ==
    \/ Execute
    \/ RunCheck
    \/ SqlOnlyRow
    \/ ExecuteRow
    \/ AfterLoop
    \/ EvaluateThresholds
    \/ MissingTables
    \/ MissingFields
    \/ EmptyTables
    \/ EmptyFields
    \/ Cascade
    \/ Verdict
    \/ Summarize
    \/ WriteResults

Spec == Init /\ [][Next]_vars

----------------------------------------------------------------------------
(* get_check_id on its own: argument tuples drawn from bounded sets        *)

V_O == <<"V","_","O">>

IdLevels == { StrV(FIELD), StrV(CONCEPT) }

IdTables == { StrV(<<"V">>), StrV(V_O) }

IdFields == { None, StrV(<<>>), StrV(<<" ">>), StrV(<<"O","_","I","D">>),
              StrV(<<"I","D">>), StrV(<<"I"," ","d">>) }

IdConcepts == { None, StrV(<<>>), IntV(0), IntV(12) }

IdUnits == { None, StrV(<<>>), StrV(<<"8">>) }

\* one argument tuple of get_check_id
IdInputs ==
    { <<l, StrV(cdmField), t, f, c, u>> :
        l \in IdLevels, t \in IdTables, f \in IdFields, c \in IdConcepts, u \in IdUnits }

\* the tuples drawn in pairs: rule rows of one level with a field name
IdPairInputs ==
    { <<StrV(FIELD), StrV(cdmField), t, f, None, None>> :
        t \in IdTables, f \in IdFields \ {None, StrV(<<>>), StrV(<<" ">>)} }

InitId ==
    /\ id_args \in { <<a>> : a \in IdInputs } \cup { <<a, b>> : a \in IdPairInputs, b \in IdPairInputs }
    /\ id_out = <<>>
    /\ tables_to_include = <<>>
    /\ tables_to_exclude = <<>>
    /\ check_names = <<>>
    /\ sql_only = FALSE
    /\ check_descriptions = <<>>
    /\ table_checks = <<>>
    /\ field_checks = <<>>
    /\ concept_checks = <<>>
    /\ pc = "get_check_id"
    /\ ci = 0
    /\ ri = 0
    /\ checks = <<>>
    /\ dfs = <<>>
    /\ results_list = <<>>
    /\ check_results = <<>>
    /\ exc = ""
    /\ errors = 0
    /\ step3_failed = {}
    /\ engine = FALSE
    /\ files = StaleFiles
    /\ executed = <<>>
    /\ evaluations = 0
    /\ conditions = <<>>
    /\ overview = NoOverview
    /\ report = NoReport
    /\ orderings = <<>>
    /\ outcomes = <<>>

\* get_check_id is called on every tuple of id_args
GetCheckIds ==
    /\ pc = "get_check_id"
    /\ pc' = "returned"
    /\ id_out' = [i \in 1..Len(id_args) |->
                    get_check_id(id_args[i][1], id_args[i][2], id_args[i][3],
                                 id_args[i][4], id_args[i][5], id_args[i][6])]
    /\ UNCHANGED <<configVars, loopVars, check_results, exc, step3_failed, id_args>>
    /\ UNCHANGED <<ioVars, orderVars>>

NextId == GetCheckIds

SpecId == InitId /\ [][NextId]_vars

----------------------------------------------------------------------------
(* _evaluate_thresholds on its own: two orderings of one set of raw results *)

\* lines 481-735 on a frame of raw results: the exception raised, or "" and
\* the classified frame
Classify(rows) ==
    LET loop == ThresholdLoop([i \in 1..Len(rows) |-> InitVerdict(rows[i])], 1) IN
    IF loop.exc # "" THEN [exc |-> loop.exc, rows |-> <<>>]
    ELSE IF Len(rows) = 0 \/ Len(MissingTableKeys(loop.rows)) > 0
    THEN [exc |-> "KeyError", rows |-> <<>>]
    ELSE LET fields == MarkMissingFields(AddColumn(loop.rows, "TABLE_IS_MISSING", None)) IN
         IF Len(EmptyTableKeys(fields)) > 0
         THEN [exc |-> "IndexError", rows |-> <<>>]
         ELSE LET empty == MarkEmptyFields(AddColumn(fields, "TABLE_IS_EMPTY", None))
              IN  [exc |-> "",
                   rows |-> [i \in 1..Len(empty) |->
                       FinalVerdict(ApplyCascade(ConceptColumns(empty[i])))]]

\* the raw results the orderings are drawn from: results of process_check for
\* rows of the catalog
RawResults ==
    LET cd == CheckDescriptionsCsv
        birth == FieldLevelCsv(IntV(5), IntV(4), IntV(0))[1]
        visit == FieldLevelCsv(IntV(5), IntV(4), IntV(0))[2]
    IN  { process_check(birth, cd[2], QueryRow(1, 10000, 1))[1],
          process_check(birth, cd[3], QueryRow(50, 500, 1000))[1],
          process_check(birth, cd[4], QueryRow(10, 100, 1000))[1],
          process_check(birth, cd[4], QueryNoRow)[1],
          process_check(visit, cd[3], QueryRow(1000, 10000, 1000))[1],
          process_check(visit, cd[3], QueryRow(0, 0, 0))[1],
          process_check(TableLevelCsv[2], cd[1], QueryRow(0, 0, 1))[1],
          process_check(ConceptLevelCsv[1], cd[5], QueryRow(0, 0, 0))[1],
          process_check(ConceptLevelCsv[1], cd[5], QueryRow(50, 500, 1000))[1] }

\* the number of results of an ordering
OrderLen == 3

\* the frames of OrderLen raw results with different checkIds
RawFrames ==
    { f \in [1..OrderLen -> RawResults] :
        \A i \in 1..OrderLen, j \in 1..OrderLen : i # j => f[i].checkId # f[j].checkId }

InitOrder ==
    /\ orderings \in { << f, [i \in 1..OrderLen |-> f[p[i]]] >> :
                          f \in RawFrames, p \in Permutations(1..OrderLen) }
    /\ outcomes = <<>>
    /\ pc = "orderings"
    /\ table_checks = TableLevelCsv
    /\ field_checks = DropOffset(FieldLevelCsv(IntV(5), IntV(4), IntV(0)))
    /\ concept_checks = ConceptLevelCsv
    /\ check_descriptions = CheckDescriptionsCsv
    /\ tables_to_include = <<>>
    /\ tables_to_exclude = <<>>
    /\ check_names = <<>>
    /\ sql_only = FALSE
    /\ ci = 0
    /\ ri = 0
    /\ checks = <<>>
    /\ dfs = <<>>
    /\ results_list = <<>>
    /\ check_results = <<>>
    /\ exc = ""
    /\ errors = 0
    /\ step3_failed = {}
    /\ id_args = <<>>
    /\ id_out = <<>>
    /\ engine = FALSE
    /\ files = StaleFiles
    /\ executed = <<>>
    /\ evaluations = 0
    /\ conditions = <<>>
    /\ overview = NoOverview
    /\ report = NoReport

\* evaluate_thresholds is called on each ordering
ClassifyOrderings ==
    /\ pc = "orderings"
    /\ pc' = "ordered"
    /\ outcomes' = << Classify(orderings[1]), Classify(orderings[2]) >>
    /\ UNCHANGED <<configVars, loopVars, check_results, exc, step3_failed>>
    /\ UNCHANGED <<idVars, ioVars, orderings>>

NextOrder == ClassifyOrderings

SpecOrder == InitOrder /\ [][NextOrder]_vars

----------------------------------------------------------------------------
(* The classifier on the frames execute() hands it (line 157) when a check *)
(* of Check_Descriptions.csv is listed more than once: the results of a    *)
(* rule are then in the frame once per listing                             *)

\* the number of results of a frame
FrameLen == 2

InitFrame ==
    /\ orderings \in { << f >> : f \in [1..FrameLen -> RawResults] }
    /\ outcomes = <<>>
    /\ pc = "frame"
    /\ table_checks = TableLevelCsv
    /\ field_checks = DropOffset(FieldLevelCsv(IntV(5), IntV(4), IntV(0)))
    /\ concept_checks = ConceptLevelCsv
    /\ check_descriptions = CheckDescriptionsCsv
    /\ tables_to_include = <<>>
    /\ tables_to_exclude = <<>>
    /\ check_names = <<>>
    /\ sql_only = FALSE
    /\ ci = 0
    /\ ri = 0
    /\ checks = <<>>
    /\ dfs = <<>>
    /\ results_list = <<>>
    /\ check_results = <<>>
    /\ exc = ""
    /\ errors = 0
    /\ step3_failed = {}
    /\ id_args = <<>>
    /\ id_out = <<>>
    /\ engine = FALSE
    /\ files = StaleFiles
    /\ executed = <<>>
    /\ evaluations = 0
    /\ conditions = <<>>
    /\ overview = NoOverview
    /\ report = NoReport

\* evaluate_thresholds is called on the frame (lines 159-162)
ClassifyFrame ==
    /\ pc = "frame"
    /\ pc' = "framed"
    /\ outcomes' = << Classify(orderings[1]) >>
    /\ UNCHANGED <<configVars, loopVars, check_results, exc, step3_failed>>
    /\ UNCHANGED <<idVars, ioVars, orderings>>

NextFrame == ClassifyFrame

SpecFrame == InitFrame /\ [][NextFrame]_vars

----------------------------------------------------------------------------
(* Properties                                                              *)

Rows == 1..Len(check_results)

\* the position of execute() lies in the classifier, after the threshold loop
\* and before the final verdict: FAILED still holds what the fail test set
InCascade == pc \in {"missing_tables", "missing_fields", "empty_tables",
                     "empty_fields", "cascade", "verdict"}

\* C1: once the classifier has returned, every result has exactly one of
\* FAILED, PASSED, IS_ERROR, NOT_APPLICABLE equal to 1 and the others equal to 0
C1_ExactlyOneVerdict ==
    pc = "classified" =>
        \A i \in Rows :
            LET r == check_results[i] IN
            /\ {r.FAILED, r.PASSED, r.IS_ERROR, r.NOT_APPLICABLE} \subseteq {0, 1}
            /\ r.FAILED + r.PASSED + r.IS_ERROR + r.NOT_APPLICABLE = 1

\* a classified frame that holds a failed, a passed, an error and a
\* not-applicable result
C1_Witness ==
    /\ pc = "classified"
    /\ \E i \in Rows : check_results[i].FAILED = 1
    /\ \E i \in Rows : check_results[i].PASSED = 1
    /\ \E i \in Rows : check_results[i].IS_ERROR = 1
    /\ \E i \in Rows : check_results[i].NOT_APPLICABLE = 1

\* the classifier has ended: it returned or it raised
ClassifierEnded == pc \in {"classified", "crashed"}

\* C2: when the cdmTable result of table T failed the fail test, then once the
\* classifier has ended every other result of table T has NOT_APPLICABLE = 1,
\* FAILED = 0 and the reason "Table T does not exist."
C2_TableMissingCascade ==
    ClassifierEnded =>
        \A i \in Rows :
            (check_results[i].CHECK_NAME = cdmTable
             /\ check_results[i].checkId \in step3_failed) =>
                \A j \in Rows \ {i} :
                    check_results[j].CDM_TABLE_NAME = check_results[i].CDM_TABLE_NAME =>
                        /\ check_results[j].NOT_APPLICABLE = 1
                        /\ check_results[j].FAILED = 0
                        /\ check_results[j].NOT_APPLICABLE_REASON =
                              <<"Table ", check_results[j].CDM_TABLE_NAME, " does not exist.">>

\* C3: once the classifier has returned, a result with an execution error has
\* IS_ERROR = 1, FAILED = 0, NOT_APPLICABLE = 0, PASSED = 0 and no reason
C3_ErrorShortCircuit ==
    pc = "classified" =>
        \A i \in Rows :
            LET r == check_results[i] IN
            ~IsNa(r.ERROR) =>
                /\ r.IS_ERROR = 1
                /\ r.FAILED = 0
                /\ r.NOT_APPLICABLE = 0
                /\ r.PASSED = 0
                /\ r.NOT_APPLICABLE_REASON = <<>>

\* an error result whose table and field another result was marked
\* "Field ... does not exist." for
C3_Witness ==
    /\ pc = "classified"
    /\ \E i \in Rows, j \in Rows :
          /\ ~IsNa(check_results[i].ERROR)
          /\ check_results[i].IS_ERROR = 1
          /\ IsNa(check_results[j].ERROR)
          /\ FieldKey(check_results[j]) = FieldKey(check_results[i])
          /\ check_results[j].NOT_APPLICABLE = 1
          /\ check_results[j].NOT_APPLICABLE_REASON[1] = "Field "

\* the resolved threshold of r is a number other than zero
HasThreshold(r) == r.THRESHOLD_VALUE.t = "int" /\ r.THRESHOLD_VALUE.n # 0

\* C4: when the threshold loop has ended, a result without error whose
\* threshold is defined and not zero has FAILED = 1 exactly when pct * 100 is
\* greater than the threshold (pct is held in ten-thousandths); 0.05 against 5
\* is not failed and 0.05 against 4 is failed
C4_ThresholdTest ==
    pc = "missing_tables" =>
        \A i \in Rows :
            LET r == check_results[i] IN
            (IsNa(r.ERROR) /\ HasThreshold(r)) =>
                /\ r.FAILED = 1 <=> r.PCT_VIOLATED_ROWS.n > 100 * r.THRESHOLD_VALUE.n
                /\ (r.PCT_VIOLATED_ROWS.n = 500 /\ r.THRESHOLD_VALUE.n = 5) => r.FAILED = 0
                /\ (r.PCT_VIOLATED_ROWS.n = 500 /\ r.THRESHOLD_VALUE.n = 4) => r.FAILED = 1

\* pct = 0.05 judged against the threshold 5 and against the threshold 4
C4_Witness ==
    /\ pc = "missing_tables"
    /\ \E i \in Rows, j \in Rows :
          /\ IsNa(check_results[i].ERROR) /\ IsNa(check_results[j].ERROR)
          /\ check_results[i].PCT_VIOLATED_ROWS = FloatV(500)
          /\ check_results[j].PCT_VIOLATED_ROWS = FloatV(500)
          /\ check_results[i].THRESHOLD_VALUE = IntV(5)
          /\ check_results[j].THRESHOLD_VALUE = IntV(4)
          /\ check_results[i].FAILED = 0
          /\ check_results[j].FAILED = 1

\* the threshold of r is undefined (no column, no value in the cell) or zero
NoThreshold(r) == r.THRESHOLD_VALUE \in {None, StrV(<<>>), IntV(0)}

\* the threshold loop has dealt with row i: it ran to its end, or it raised at
\* row i after resolving the row's blank threshold cell
Judged(i) ==
    \/ pc = "missing_tables"
    \/ pc = "crashed" /\ check_results[i].THRESHOLD_VALUE = StrV(<<>>)

\* C5: a result without error whose threshold is undefined or zero has
\* FAILED = 1 exactly when NUM_VIOLATED_ROWS > 0
C5_NaiveFailTest ==
    \A i \in Rows :
        LET r == check_results[i] IN
        (Judged(i) /\ IsNa(r.ERROR) /\ NoThreshold(r)) =>
            (r.FAILED = 1 <=> r.NUM_VIOLATED_ROWS.n > 0)

\* C6: once the classifier has returned, a not-applicable result has FAILED = 0,
\* and PASSED = 1 exactly when FAILED = 0, IS_ERROR = 0 and NOT_APPLICABLE = 0
C6_FinalVerdict ==
    pc = "classified" =>
        \A i \in Rows :
            LET r == check_results[i] IN
            /\ r.NOT_APPLICABLE = 1 => r.FAILED = 0
            /\ r.PASSED = 1 <=> (r.FAILED = 0 /\ r.IS_ERROR = 0 /\ r.NOT_APPLICABLE = 0)

\* a not-applicable result that the fail test had failed
C6_Witness ==
    /\ pc = "classified"
    /\ \E i \in Rows :
          /\ check_results[i].NOT_APPLICABLE = 1
          /\ check_results[i].FAILED = 0
          /\ check_results[i].checkId \in step3_failed

\* the rows run_check matches for the k-th check description
Matched(k) ==
    EvalFilter(LevelRules(check_descriptions[k].checkLevel),
               check_descriptions[k].evaluationFilter)

\* frame holds one result per row of rules, in row order, for description cd;
\* a result with an error has no numbers and a result without one has them
OnePerRow(frame, rules, cd) ==
    /\ Len(frame) = Len(rules)
    /\ \A j \in 1..Len(frame) :
          /\ frame[j].CHECK_NAME = cd.checkName
          /\ frame[j].CDM_TABLE_NAME = StrV(rules[j].cdmTableName)
          /\ frame[j].CDM_FIELD_NAME = rules[j].cdmFieldName
          /\ frame[j].CONCEPT_ID = rules[j].conceptId
          /\ frame[j].UNIT_CONCEPT_ID = rules[j].unitConceptId
          /\ IsNa(frame[j].ERROR) <=> ~IsNa(frame[j].NUM_VIOLATED_ROWS)
          /\ IsNa(frame[j].ERROR) <=> ~IsNa(frame[j].PCT_VIOLATED_ROWS)
          /\ IsNa(frame[j].ERROR) <=> ~IsNa(frame[j].NUM_DENOMINATOR_ROWS)
          /\ frame[j].ERROR \in {None, StrV(QueryFailedMsg), StrV(IndexErrorMsg)}

\* C7: in execute mode every check description that has been run has exactly
\* one result per matched row, a failed query leaving an error and no numbers;
\* the row loop is never cut short, and the run loop ends only when every
\* check description has been run
C7_OneResultPerRow ==
    (~sql_only /\ pc # "execute") =>
        /\ \A k \in 1..Len(results_list) :
              OnePerRow(results_list[k], Matched(k), check_descriptions[k])
        /\ pc = "row" => OnePerRow(Concat(dfs), SubSeq(checks, 1, ri - 1),
                                   check_descriptions[ci])
        /\ pc \notin {"run_check", "row", "exited"} =>
              Len(results_list) = Len(check_descriptions)
        /\ pc = "evaluate" => check_results = Concat(results_list)

\* a run in which a query failed and rows and check descriptions after it ran
C7_Witness ==
    /\ ~sql_only
    /\ pc = "evaluate"
    /\ \E k \in 1..Len(results_list) : \E j \in 1..Len(results_list[k]) :
          /\ ~IsNa(results_list[k][j].ERROR)
          /\ j < Len(results_list[k])
          /\ \E m \in (k + 1)..Len(results_list) : Len(results_list[m]) > 0

\* the components get_check_id is to join: of the arguments that are not
\* None, the space-stripped text, when it is not empty
RECURSIVE Components(_)
Components(args) ==
    IF args = <<>> THEN <<>>
    ELSE (IF Head(args).t # "none" /\ StripSpaces(ToStr(Head(args))) # <<>>
          THEN << StripSpaces(ToStr(Head(args))) >> ELSE <<>>)
         \o Components(Tail(args))

\* how often the character c occurs in the text s
Occurrences(s, c) == Cardinality({ i \in 1..Len(s) : s[i] = c })

NotUnderscore(c) == c # "_"

\* C8: the id get_check_id returns is lower-case and without spaces; it has one
\* separator between consecutive non-empty components and none for an omitted
\* one (no leading, trailing or doubled underscore); without its underscores it
\* is the lower-cased concatenation of the components without theirs
C8_CheckIdShape ==
    pc = "returned" =>
        \A i \in 1..Len(id_args) :
            LET id == id_out[i]
                comps == Components(id_args[i])
            IN  /\ Len(id) > 0
                /\ id[1] # "_" /\ id[Len(id)] # "_"
                /\ \A p \in 1..(Len(id) - 1) : ~(id[p] = "_" /\ id[p + 1] = "_")
                /\ \A p \in 1..Len(id) : id[p] # " " /\ id[p] = LowerChar(id[p])
                /\ Occurrences(id, "_") =
                      (Len(comps) - 1) + Occurrences(Concat(comps), "_")
                /\ SelectSeq(id, NotUnderscore) =
                      Lower(SelectSeq(Concat(comps), NotUnderscore))

\* an id computed from a blank field name followed by a concept id
C8_Witness ==
    /\ pc = "returned"
    /\ \E i \in 1..Len(id_args) :
          /\ id_args[i][4] \in {StrV(<<>>), StrV(<<" ">>)}
          /\ id_args[i][5] = IntV(12)
          /\ id_args[i][6] = None
          /\ id_out[i] = Lower(FIELD) \o <<"_">> \o Lower(cdmField) \o <<"_">>
                         \o <<"v">> \o <<"_">> \o <<"1", "2">>

\* C9: two results that come from different argument tuples never have the
\* same checkId
C9_CheckIdUnique ==
    (pc = "returned" /\ Len(id_args) = 2) =>
        (id_args[1] # id_args[2] => id_out[1] # id_out[2])

\* the results a run holds, wherever it holds them
AllResults ==
    { check_results[i] : i \in Rows }
    \cup { dfs[j][1] : j \in { n \in 1..Len(dfs) : Len(dfs[n]) > 0 } }
    \cup UNION { { results_list[k][j] : j \in 1..Len(results_list[k]) } :
                 k \in 1..Len(results_list) }

\* C10: no result of a run has a table named, in any case, in tables_to_exclude;
\* this holds of a table that tables_to_include names too
C10_ExcludedTables ==
    \A e \in Elems(tables_to_exclude) :
        \A r \in AllResults : r.CDM_TABLE_NAME # StrV(Upper(e))

\* a classified run that excluded "Visit" from a catalog with VISIT rules at
\* every level and kept the results of another table
C10_Witness ==
    /\ pc = "classified"
    /\ tables_to_exclude = <<Visit>>
    /\ \E i \in Rows : check_results[i].CDM_TABLE_NAME = StrV(PERSON)
    /\ \E i \in 1..Len(TableLevelCsv) : TableLevelCsv[i].cdmTableName = VISIT
    /\ \E i \in 1..Len(ConceptLevelCsv) : ConceptLevelCsv[i].cdmTableName = VISIT
    /\ \A i \in 1..Len(table_checks) : table_checks[i].cdmTableName # VISIT

\* C11: when no check description is left after the check-name filter, the
\* run has exited at once: no query was rendered or executed, no file of the
\* output folder was touched, the classifier and the summarizer did not run
\* and no report was written
C11_EmptyCatalogExit ==
    (pc # "execute" /\ Len(check_descriptions) = 0) =>
        /\ pc = "exited"
        /\ results_list = <<>>
        /\ executed = <<>>
        /\ files = StaleFiles
        /\ evaluations = 0
        /\ check_results = <<>>
        /\ overview = NoOverview
        /\ report = NoReport

\* a run that exited because check_names names no check of the catalog
C11_Witness ==
    /\ pc = "exited"
    /\ check_names = <<notACheck>>
    /\ Len(check_descriptions) = 0
    /\ Len(CheckDescriptionsCsv) > 0

\* the names the template of a check description refers to and the keyword
\* arguments of render lack for a row
MissingParams(check_description, check) ==
    Referenced(TemplateOf(check_description.checkName)) \ DOMAIN Variables(check)

\* C12: run_check never returns for a check description whose template refers
\* to a parameter that a matched row lacks: rendering that row has failed
C12_RenderFailsLoudly ==
    pc # "execute" =>
        \A k \in 1..Len(results_list) :
            \A j \in 1..Len(Matched(k)) :
                MissingParams(check_descriptions[k], Matched(k)[j]) = {}

\* the threshold lookup of r (lines 506-551) does not match exactly one
\* rule-definition row although the <checkName>Threshold column exists
Ambiguous(r) ==
    /\ r.CHECK_NAME \in ThresholdColumns(LevelRules(r.CHECK_LEVEL))
    /\ Len(ThresholdMatches(LevelRules(r.CHECK_LEVEL), r)) # 1

\* C13: once evaluate_thresholds has been entered, a result whose threshold
\* lookup matches no row or several rows means the classifier has raised; the
\* result has no threshold value and no verdict
C13_AmbiguousLookupAborts ==
    (evaluations > 0 /\ pc # "evaluate") =>
        \A i \in Rows :
            Ambiguous(check_results[i]) =>
                /\ pc = "crashed"
                /\ exc # ""
                /\ check_results[i].THRESHOLD_VALUE = None
                /\ check_results[i].FAILED = 0
                /\ check_results[i].PASSED = 0
                /\ report = NoReport

\* the classifier raised ValueError on a frame with a result whose lookup
\* matches no row and a result whose lookup matches two
C13_Witness ==
    /\ pc = "crashed"
    /\ exc = "ValueError"
    /\ \E i \in Rows, j \in Rows :
          /\ check_results[i].CHECK_NAME \in ThresholdColumns(field_checks)
          /\ check_results[j].CHECK_NAME \in ThresholdColumns(field_checks)
          /\ Len(ThresholdMatches(field_checks, check_results[i])) = 0
          /\ Len(ThresholdMatches(field_checks, check_results[j])) = 2

\* the file run_check is to leave for the k-th check description: none
\* without a matched row, else the query texts of the matched rows in row order
Artifact(k) ==
    IF Len(Matched(k)) = 0 THEN NoFile
    ELSE [exists |-> TRUE,
          content |-> [j \in 1..Len(Matched(k)) |->
                          QueryText(check_descriptions[k], Matched(k)[j])]]

\* C14: in SQL-only mode, once run_check has returned for a check description,
\* the file of its check name holds exactly the terminated queries of the
\* matched rows, in row order, and nothing an earlier run left; while the row
\* loop runs, the file holds the queries of the rows done so far
C14_ArtifactTruncateThenAppend ==
    (sql_only /\ pc # "execute") =>
        /\ \A k \in 1..Len(results_list) :
              files[check_descriptions[k].checkName] = Artifact(k)
        /\ pc = "row" =>
              files[check_descriptions[ci].checkName].content =
                  SubSeq(Artifact(ci).content, 1, ri - 1)

\* a finished SQL-only run in which a check name with a file of an earlier run
\* matched two rows
C14_Witness ==
    /\ sql_only
    /\ pc = "done"
    /\ StaleFiles[plausibleGender] = Stale
    /\ Len(files[plausibleGender].content) = 2
    /\ files[plausibleGender].content[1] # files[plausibleGender].content[2]
    /\ \A j \in 1..2 :
          LET q == files[plausibleGender].content[j] IN q[Len(q)] = Lit("\n;\n")

\* C15: in SQL-only mode the engine is never created, no query is handed to
\* pd.read_sql, every row done has left one placeholder frame without a result
\* row, and evaluate_thresholds, summarize_results and write_results_to_json
\* are never called
C15_SqlOnlyNoExecution ==
    sql_only =>
        /\ engine = FALSE
        /\ executed = <<>>
        /\ \A k \in 1..Len(results_list) : results_list[k] = <<>>
        /\ \A j \in 1..Len(dfs) : dfs[j] = <<>>
        /\ pc = "row" => Len(dfs) = ri - 1
        /\ evaluations = 0
        /\ check_results = <<>>
        /\ overview = NoOverview
        /\ report = NoReport
        /\ pc \in {"execute", "exited", "run_check", "row", "done"}

\* a finished SQL-only run that rendered the queries of matched rows
C15_Witness ==
    /\ sql_only
    /\ pc = "done"
    /\ Len(results_list) = Len(CheckDescriptionsCsv)
    /\ \E k \in 1..Len(results_list) :
          /\ Len(Matched(k)) > 1
          /\ Len(files[check_descriptions[k].checkName].content) = Len(Matched(k))

\* C16: the classifier is entered only when run_check has returned for every
\* check description, it is entered at most once, on the concatenation of all
\* their results; there is one query handed to pd.read_sql per result so far,
\* and at the barrier the queries are, one each and in order, those of the
\* matched rows
C16_BarrierOnceNoRetry ==
    (~sql_only /\ pc # "execute") =>
        /\ evaluations <= 1
        /\ pc \in {"run_check", "row", "exited"} => evaluations = 0
        /\ (evaluations = 1 \/ pc = "evaluate") =>
              /\ Len(results_list) = Len(check_descriptions)
              /\ Len(check_results) >= Len(Concat(results_list))
        /\ pc = "evaluate" => check_results = Concat(results_list)
        /\ pc = "evaluate" =>
              executed = Concat([k \in 1..Len(results_list) |-> Artifact(k).content])
        /\ Len(executed) = Len(Concat(results_list))
                           + (IF pc = "row" THEN Len(Concat(dfs)) ELSE 0)

\* a run with several check descriptions and several rows whose classifier
\* has returned
C16_Witness ==
    /\ ~sql_only
    /\ pc = "classified"
    /\ evaluations = 1
    /\ Len(check_descriptions) > 1
    /\ Len(executed) > Len(check_descriptions)
    /\ \E i \in 1..Len(executed), j \in 1..Len(executed) : executed[i] # executed[j]

\* how many classified results satisfy PASSED = 1
NumPassed == Cardinality({ i \in Rows : check_results[i].PASSED = 1 })

\* how many classified results failed their threshold without an error
NumThresholdFailed ==
    Cardinality({ i \in Rows : check_results[i].FAILED = 1
                               /\ IsNa(check_results[i].ERROR) })

\* how many classified results carry an error
NumErrorFailed == Cardinality({ i \in Rows : ~IsNa(check_results[i].ERROR) })

\* C17: once summarize_results has returned, countPassed is the number of
\* results with PASSED = 1 (no error and no not-applicable result among them),
\* countThresholdFailed and countErrorFailed count the failures without and
\* with an error, and countOverallFailed covers both
C17_SummaryCounts ==
    pc \in {"summarized", "written"} =>
        /\ overview.countPassed = NumPassed
        /\ overview.countThresholdFailed = NumThresholdFailed
        /\ overview.countErrorFailed = NumErrorFailed
        /\ overview.countOverallFailed = NumThresholdFailed + NumErrorFailed

\* the verdict columns of a classified result
VerdictOf(r) ==
    << r.FAILED, r.PASSED, r.IS_ERROR, r.NOT_APPLICABLE, r.NOT_APPLICABLE_REASON,
       r.THRESHOLD_VALUE >>

\* C18: for two orderings of the same raw results the classifier raises for
\* both or returns for both, and then gives the results with the same checkId
\* the same FAILED, PASSED, IS_ERROR, NOT_APPLICABLE, NOT_APPLICABLE_REASON and
\* THRESHOLD_VALUE
C18_OrderIndependent ==
    pc = "ordered" =>
        /\ outcomes[1].exc = "" <=> outcomes[2].exc = ""
        /\ Len(outcomes[1].rows) = Len(outcomes[2].rows)
        /\ \A i \in 1..Len(outcomes[1].rows) :
              \E j \in 1..Len(outcomes[2].rows) :
                  outcomes[2].rows[j].checkId = outcomes[1].rows[i].checkId
        /\ \A i \in 1..Len(outcomes[1].rows), j \in 1..Len(outcomes[2].rows) :
              outcomes[1].rows[i].checkId = outcomes[2].rows[j].checkId =>
                  VerdictOf(outcomes[1].rows[i]) = VerdictOf(outcomes[2].rows[j])

\* two different orderings that the classifier returned for, with a failed
\* and a not-applicable result
C18_Witness ==
    /\ pc = "ordered"
    /\ orderings[1] # orderings[2]
    /\ outcomes[1].exc = ""
    /\ outcomes[2].exc = ""
    /\ \E i \in 1..Len(outcomes[1].rows) : outcomes[1].rows[i].NOT_APPLICABLE = 1
    /\ \E i \in 1..Len(outcomes[1].rows) : outcomes[1].rows[i].FAILED = 1
    /\ outcomes[1].rows[1].checkId # outcomes[2].rows[1].checkId

\* the classifier has gone past the coalesce of lines 679-718
Coalesced == pc \in {"verdict", "classified", "summarized", "written"}

\* which of the six cascade conditions were set for row i at line 679, in
\* priority order: table missing, field missing, table empty, field empty,
\* concept missing, concept and unit missing
ConditionsSet(i) == { k \in 1..6 : ~IsNa(conditions[i][k]) }

\* the sentence of the k-th condition for the result r
Sentence(k, r) ==
    CASE k = 1 -> <<"Table ", r.CDM_TABLE_NAME, " does not exist.">>
      [] k = 2 -> <<"Field ", r.CDM_TABLE_NAME, ".", r.CDM_FIELD_NAME, " does not exist.">>
      [] k = 3 -> <<"Table ", r.CDM_TABLE_NAME, " is empty.">>
      [] k = 4 -> <<"Field ", r.CDM_TABLE_NAME, ".", r.CDM_FIELD_NAME, " is not populated.">>
      [] k = 5 -> <<r.CDM_FIELD_NAME, "=", r.CONCEPT_ID, " is missing from the ",
                    r.CDM_TABLE_NAME, " table.">>
      [] k = 6 -> <<"Combination of ", r.CDM_FIELD_NAME, "=", r.CONCEPT_ID,
                    ", UNIT_CONCEPT_ID=", r.UNIT_CONCEPT_ID,
                    " and VALUE_AS_NUMBER IS NOT NULL is missing from the ",
                    r.CDM_TABLE_NAME, " table.">>

\* C19: past the coalesce, every result has at most one of the six cascade
\* conditions set, NOT_APPLICABLE is 1 exactly when one is set, and
\* NOT_APPLICABLE_REASON is the sentence of the first one set (none without one)
C19_AtMostOneCondition ==
    Coalesced =>
        /\ Len(conditions) = Len(check_results)
        /\ \A i \in Rows :
              LET set == ConditionsSet(i)
                  r == check_results[i]
              IN  /\ Cardinality(set) <= 1
                  /\ r.NOT_APPLICABLE = (IF set # {} THEN 1 ELSE 0)
                  /\ r.NOT_APPLICABLE_REASON =
                        (IF set = {} THEN <<>>
                         ELSE Sentence(CHOOSE k \in set : \A m \in set : k <= m, r))

\* a classified frame with a field-missing result, a concept-missing result
\* and a concept-and-unit-missing result
C19_Witness ==
    /\ pc = "classified"
    /\ \E i \in Rows : ConditionsSet(i) = {2} /\ check_results[i].NOT_APPLICABLE = 1
    /\ \E i \in Rows : ConditionsSet(i) = {5} /\ check_results[i].NOT_APPLICABLE = 1
    /\ \E i \in Rows : ConditionsSet(i) = {6} /\ check_results[i].NOT_APPLICABLE = 1

\* C20: once the classifier has returned, a cdmField result that failed the
\* fail test has FAILED = 1 and NOT_APPLICABLE = 0, its table was not marked
\* missing, and every other result of its table and field without an error has
\* NOT_APPLICABLE = 1 and the reason "Field T.F does not exist."
C20_FieldMissing ==
    pc \in {"classified", "summarized", "written"} =>
        \A i \in Rows :
            LET t == check_results[i] IN
            (t.CHECK_NAME = cdmField /\ t.checkId \in step3_failed) =>
                /\ t.FAILED = 1
                /\ t.NOT_APPLICABLE = 0
                /\ ConditionsSet(i) = {}
                /\ \A j \in Rows :
                      LET r == check_results[j] IN
                      (r.CHECK_NAME # cdmField /\ FieldKey(r) = FieldKey(t)
                       /\ IsNa(r.ERROR)) =>
                          /\ 1 \notin ConditionsSet(j)
                          /\ r.NOT_APPLICABLE = 1
                          /\ r.FAILED = 0
                          /\ r.NOT_APPLICABLE_REASON =
                                <<"Field ", r.CDM_TABLE_NAME, ".", r.CDM_FIELD_NAME,
                                  " does not exist.">>

\* a failed cdmField result that stayed failed, with a completeness result of
\* its field whose counts alone would make the field look empty
C20_Witness ==
    /\ pc = "classified"
    /\ \E i \in Rows, j \in Rows :
          /\ check_results[i].CHECK_NAME = cdmField
          /\ check_results[i].FAILED = 1
          /\ check_results[j].CHECK_NAME = measureValueCompleteness
          /\ FieldKey(check_results[j]) = FieldKey(check_results[i])
          /\ check_results[j].NUM_DENOMINATOR_ROWS = check_results[j].NUM_VIOLATED_ROWS
          /\ check_results[j].NUM_DENOMINATOR_ROWS = IntV(1000)
          /\ check_results[j].NOT_APPLICABLE = 1

\* the result r reached line 608 as a completeness result without an error,
\* with no denominator rows, its table and its field not marked missing
MarksTableEmpty(r) == "FIELD_IS_MISSING" \in DOMAIN r /\ IsEmptyTable(r)

\* C21: when a completeness result without an error has no denominator rows
\* and neither its table nor its field is marked missing, the classifier
\* returns, and every result of that table without an error, other than the
\* cdmTable and cdmField results, has NOT_APPLICABLE = 1, with the reason
\* "Table T is empty." unless its field is marked missing
C21_TableEmptyCascade ==
    /\ pc = "crashed" => \A i \in Rows : ~MarksTableEmpty(check_results[i])
    /\ pc = "classified" =>
          \A i \in Rows :
              LET t == check_results[i] IN
              (/\ t.CHECK_NAME = measureValueCompleteness
               /\ IsNa(t.ERROR)
               /\ t.NUM_DENOMINATOR_ROWS = IntV(0)
               /\ 2 \notin ConditionsSet(i)) =>
                  \A j \in Rows :
                      LET r == check_results[j] IN
                      (/\ r.CDM_TABLE_NAME = t.CDM_TABLE_NAME
                       /\ IsNa(r.ERROR)
                       /\ r.CHECK_NAME \notin {cdmTable, cdmField}) =>
                          /\ r.NOT_APPLICABLE = 1
                          /\ 2 \notin ConditionsSet(j) =>
                                r.NOT_APPLICABLE_REASON =
                                    <<"Table ", r.CDM_TABLE_NAME, " is empty.">>

\* row i of a classified frame is a completeness result whose denominator
\* equals its violated rows and whose field is not marked missing
MarksFieldEmpty(i) ==
    LET t == check_results[i] IN
    /\ t.CHECK_NAME = measureValueCompleteness
    /\ ~IsNa(t.NUM_DENOMINATOR_ROWS)
    /\ t.NUM_DENOMINATOR_ROWS = t.NUM_VIOLATED_ROWS
    /\ 2 \notin ConditionsSet(i)

\* the reason of a result of an empty field
NotPopulated(r) == <<"Field ", r.CDM_TABLE_NAME, ".", r.CDM_FIELD_NAME, " is not populated.">>

\* C22 as stated: once the classifier has returned, with a completeness result
\* of (T, F) whose denominator equals its violated rows, every result of (T, F)
\* without an error, other than the cdmField, cdmTable and isRequired results,
\* has NOT_APPLICABLE = 1, FAILED = 0 and the reason "Field T.F is not
\* populated.", the completeness result included
C22_FieldEmptyAsStated ==
    pc = "classified" =>
        \A i \in Rows : MarksFieldEmpty(i) =>
            \A j \in Rows :
                LET r == check_results[j] IN
                (/\ FieldKey(r) = FieldKey(check_results[i])
                 /\ IsNa(r.ERROR)
                 /\ r.CHECK_NAME \notin {cdmField, cdmTable, isRequired}) =>
                    /\ r.NOT_APPLICABLE = 1
                    /\ r.FAILED = 0
                    /\ r.NOT_APPLICABLE_REASON = NotPopulated(r)

\* C22 amended: the results left out are those of measureValueCompleteness,
\* cdmField and isRequired.  Every other result of (T, F) without an error has
\* NOT_APPLICABLE = 1, FAILED = 0 and the reason "Field T.F is not
\* populated."; the results left out do not get the field-empty condition, and
\* the completeness result itself keeps NOT_APPLICABLE = 0
C22_FieldEmpty ==
    pc = "classified" =>
        \A i \in Rows : MarksFieldEmpty(i) =>
            /\ check_results[i].NOT_APPLICABLE = 0
            /\ \A j \in Rows :
                  LET r == check_results[j] IN
                  (FieldKey(r) = FieldKey(check_results[i]) /\ IsNa(r.ERROR)) =>
                      IF r.CHECK_NAME \in {measureValueCompleteness, cdmField, isRequired}
                      THEN 4 \notin ConditionsSet(j)
                      ELSE /\ ConditionsSet(j) = {4}
                           /\ r.NOT_APPLICABLE = 1
                           /\ r.FAILED = 0
                           /\ r.NOT_APPLICABLE_REASON = NotPopulated(r)

\* a classified frame with a completeness result of an empty field that stayed
\* applicable and failed, and a concept result of that field made not applicable
C22_Witness ==
    /\ pc = "classified"
    /\ \E i \in Rows, j \in Rows :
          /\ MarksFieldEmpty(i)
          /\ check_results[i].FAILED = 1
          /\ check_results[i].NOT_APPLICABLE = 0
          /\ FieldKey(check_results[j]) = FieldKey(check_results[i])
          /\ check_results[j].CHECK_LEVEL = CONCEPT
          /\ ConditionsSet(j) = {4}
          /\ check_results[j].NOT_APPLICABLE_REASON = NotPopulated(check_results[j])

\* the checkId and the measured cells of a result
Measured(r) ==
    << r.checkId, r.NUM_VIOLATED_ROWS, r.PCT_VIOLATED_ROWS,
       r.NUM_DENOMINATOR_ROWS, r.ERROR >>

\* how many rows of a frame hold the checkId and measured cells m
RowsHolding(rows, m) == Cardinality({ i \in 1..Len(rows) : Measured(rows[i]) = m })

\* C23: when the classifier returns, its output holds one row per result of
\* its input, with the same checkId and the same numViolatedRows,
\* pctViolatedRows, numDenominatorRows and error
C23_RowsPreserved ==
    (pc = "framed" /\ outcomes[1].exc = "") =>
        /\ Len(outcomes[1].rows) = Len(orderings[1])
        /\ \A i \in 1..Len(orderings[1]) :
              RowsHolding(outcomes[1].rows, Measured(orderings[1][i]))
                  = RowsHolding(orderings[1], Measured(orderings[1][i]))

====
